---- MODULE Spec2Model ----
(***************************************************************************)
(* Account-plan synthesis pipeline of agent/research_agent.py:             *)
(* ResearchAgent.search_company, _call_gemini, _extract_json_from_text,    *)
(* _ensure_long_sections and generate_account_plan.                        *)
(*                                                                         *)
(* Text is a sequence of one-character strings, so that strip(), the       *)
(* regular expressions and json.loads are computed character by character. *)
(* A JSON value is a tagged record; a Python dict is a sequence of         *)
(* <<key, value>> pairs in insertion order with unique keys.               *)
(***************************************************************************)
EXTENDS Integers, Sequences, FiniteSets, TLC

(***************************************************************************)
(* Characters and text                                                     *)
(***************************************************************************)
QUOTE == "\""
BSLASH == "\\"

\* str.isspace / regex \s / JSON whitespace on the modelled alphabet
IsSpace(c) == c \in {" ", "\n", "\t", "\r", "\f"}

\* the JSON grammar's whitespace (json.loads): no form feed
IsJsonWs(c) == c \in {" ", "\n", "\t", "\r"}

\* characters json.loads (strict) refuses unescaped inside a string
IsControl(c) == c \in {"\n", "\t", "\r", "\f"}

Digits == <<"0", "1", "2", "3", "4", "5", "6", "7", "8", "9">>

IsDigit(c) == \E d \in 1..10 : Digits[d] = c

DigitVal(c) == (CHOOSE d \in 1..10 : Digits[d] = c) - 1

\* s[i], or "" past either end
At(s, i) == IF i \in 1..Len(s) THEN s[i] ELSE ""

\* str.strip(): drop leading and trailing whitespace
Strip(s) ==
    IF \A i \in 1..Len(s) : IsSpace(s[i]) THEN <<>>
    ELSE LET a == CHOOSE i \in 1..Len(s) :
                      ~IsSpace(s[i]) /\ \A k \in 1..(i - 1) : IsSpace(s[k])
             b == CHOOSE j \in 1..Len(s) :
                      ~IsSpace(s[j]) /\ \A k \in (j + 1)..Len(s) : IsSpace(s[k])
         IN SubSeq(s, a, b)

\* str(n) for an int n
RECURSIVE NatToStr(_)
NatToStr(n) == IF n < 10 THEN <<Digits[n + 1]>>
               ELSE NatToStr(n \div 10) \o <<Digits[(n % 10) + 1]>>

IntToStr(n) == IF n < 0 THEN <<"-">> \o NatToStr(-n) ELSE NatToStr(n)

\* whether sub occurs in s (Python's `sub in s`)
Contains(s, sub) ==
    \E i \in 1..(Len(s) - Len(sub) + 1) : SubSeq(s, i, i + Len(sub) - 1) = sub

(***************************************************************************)
(* JSON values and Python dicts                                            *)
(***************************************************************************)
JStr(s) == [t |-> "str", v |-> s]
JNum(n) == [t |-> "num", v |-> n]
JBool(b) == [t |-> "bool", v |-> b]
JNull == [t |-> "null", v |-> 0]
JArr(xs) == [t |-> "arr", v |-> xs]
JObj(ps) == [t |-> "obj", v |-> ps]

\* dict keys, in insertion order
DictKeys(d) == {d[i][1] : i \in 1..Len(d)}

DictHas(d, k) == \E i \in 1..Len(d) : d[i][1] = k

\* d[k] for a key the dict holds
DictAt(d, k) == d[CHOOSE i \in 1..Len(d) : d[i][1] = k][2]

\* d[k] = v: a new key goes last, a present key keeps its place
DictSet(d, k, v) ==
    IF DictHas(d, k)
    THEN [i \in 1..Len(d) |-> IF d[i][1] = k THEN <<k, v>> ELSE d[i]]
    ELSE Append(d, <<k, v>>)

\* Python truthiness of a parsed JSON value
Truthy(x) ==
    CASE x.t = "str" -> Len(x.v) > 0
      [] x.t = "num" -> x.v # 0
      [] x.t = "bool" -> x.v
      [] x.t = "null" -> FALSE
      [] x.t = "arr" -> Len(x.v) > 0
      [] x.t = "obj" -> Len(x.v) > 0

(***************************************************************************)
(* json.loads on the modelled grammar: objects, arrays, strings with the   *)
(* escapes \" \\ \/ \n \t \r \f, integers, true, false, null.  Inputs      *)
(* never hold \b, \u, fractions, exponents, NaN or Infinity.               *)
(***************************************************************************)
ParseFail == [ok |-> FALSE, val |-> JNull, pos |-> 0]

ParseOk(v, p) == [ok |-> TRUE, val |-> v, pos |-> p]

\* first index >= i that holds no JSON whitespace (Len(s) + 1 at the end)
SkipWs(s, i) ==
    CHOOSE j \in i..(Len(s) + 1) :
        /\ (j = Len(s) + 1 \/ ~IsJsonWs(s[j]))
        /\ \A k \in i..(j - 1) : IsJsonWs(s[k])

\* number of consecutive backslashes that end right before index j (> i)
BackslashRun(s, i, j) ==
    LET b == CHOOSE k \in i..(j - 1) :
                 s[k] # BSLASH /\ \A m \in (k + 1)..(j - 1) : s[m] = BSLASH
    IN j - 1 - b

IsClosingQuote(s, i, j) == s[j] = QUOTE /\ BackslashRun(s, i, j) % 2 = 0

UnescapeChar(c) ==
    CASE c = "n" -> "\n"
      [] c = "t" -> "\t"
      [] c = "r" -> "\r"
      [] c = "f" -> "\f"
      [] OTHER -> c

\* the text of a string body, escapes decoded; ok = FALSE on a bad escape
RECURSIVE Unescape(_)
Unescape(b) ==
    IF \A k \in 1..Len(b) : b[k] # BSLASH THEN [ok |-> TRUE, val |-> b]
    ELSE LET p == CHOOSE k \in 1..Len(b) :
                      b[k] = BSLASH /\ \A m \in 1..(k - 1) : b[m] # BSLASH
             c == At(b, p + 1)
         IN IF c \notin {QUOTE, BSLASH, "/", "n", "t", "r", "f"}
            THEN [ok |-> FALSE, val |-> <<>>]
            ELSE LET rest == Unescape(SubSeq(b, p + 2, Len(b)))
                 IN [ok |-> rest.ok,
                     val |-> SubSeq(b, 1, p - 1) \o <<UnescapeChar(c)>> \o rest.val]

\* s[i] is the opening quote
ParseString(s, i) ==
    IF ~(\E j \in (i + 1)..Len(s) : IsClosingQuote(s, i, j)) THEN ParseFail
    ELSE LET j == CHOOSE j \in (i + 1)..Len(s) :
                      /\ IsClosingQuote(s, i, j)
                      /\ \A k \in (i + 1)..(j - 1) : ~IsClosingQuote(s, i, k)
             body == SubSeq(s, i + 1, j - 1)
             u == Unescape(body)
         IN IF (\E k \in 1..Len(body) : IsControl(body[k])) \/ ~u.ok
            THEN ParseFail
            ELSE ParseOk(JStr(u.val), j + 1)

RECURSIVE DigitsVal(_, _, _)
DigitsVal(s, a, b) ==
    IF a > b THEN 0 ELSE DigitsVal(s, a, b - 1) * 10 + DigitVal(s[b])

\* s[i] is "-" or a digit
ParseNumber(s, i) ==
    LET a == IF s[i] = "-" THEN i + 1 ELSE i
        e == CHOOSE j \in a..(Len(s) + 1) :
                 /\ (j = Len(s) + 1 \/ ~IsDigit(s[j]))
                 /\ \A k \in a..(j - 1) : IsDigit(s[k])
    IN IF e = a THEN ParseFail
       ELSE IF s[a] = "0" /\ e > a + 1
            THEN ParseOk(JNum(0), a + 1)
            ELSE ParseOk(JNum(IF a = i THEN DigitsVal(s, a, e - 1)
                                        ELSE 0 - DigitsVal(s, a, e - 1)), e)

LitTrue == <<"t", "r", "u", "e">>
LitFalse == <<"f", "a", "l", "s", "e">>
LitNull == <<"n", "u", "l", "l">>

StartsAt(s, i, lit) ==
    i + Len(lit) - 1 <= Len(s) /\ SubSeq(s, i, i + Len(lit) - 1) = lit

RECURSIVE ParseValue(_, _), ParseMembers(_, _, _), ParseElements(_, _, _)

\* the members of an object from index i (a key must start there)
ParseMembers(s, i, acc) ==
    IF At(s, i) # QUOTE THEN ParseFail
    ELSE LET k == ParseString(s, i)
         IN IF ~k.ok THEN ParseFail
            ELSE LET c == SkipWs(s, k.pos)
                 IN IF At(s, c) # ":" THEN ParseFail
                    ELSE LET v == ParseValue(s, SkipWs(s, c + 1))
                         IN IF ~v.ok THEN ParseFail
                            ELSE LET n == SkipWs(s, v.pos)
                                     acc2 == DictSet(acc, k.val.v, v.val)
                                 IN IF At(s, n) = "}"
                                    THEN ParseOk(JObj(acc2), n + 1)
                                    ELSE IF At(s, n) = ","
                                         THEN ParseMembers(s, SkipWs(s, n + 1), acc2)
                                         ELSE ParseFail

\* the elements of an array from index i (a value must start there)
ParseElements(s, i, acc) ==
    LET v == ParseValue(s, i)
    IN IF ~v.ok THEN ParseFail
       ELSE LET n == SkipWs(s, v.pos)
                acc2 == Append(acc, v.val)
            IN IF At(s, n) = "]"
               THEN ParseOk(JArr(acc2), n + 1)
               ELSE IF At(s, n) = ","
                    THEN ParseElements(s, SkipWs(s, n + 1), acc2)
                    ELSE ParseFail

\* one JSON value starting at index i (no whitespace at i)
ParseValue(s, i) ==
    LET c == At(s, i)
    IN CASE c = "{" ->
              LET j == SkipWs(s, i + 1)
              IN IF At(s, j) = "}" THEN ParseOk(JObj(<<>>), j + 1)
                 ELSE ParseMembers(s, j, <<>>)
         [] c = "[" ->
              LET j == SkipWs(s, i + 1)
              IN IF At(s, j) = "]" THEN ParseOk(JArr(<<>>), j + 1)
                 ELSE ParseElements(s, j, <<>>)
         [] c = QUOTE -> ParseString(s, i)
         [] c = "-" \/ IsDigit(c) -> ParseNumber(s, i)
         [] StartsAt(s, i, LitTrue) -> ParseOk(JBool(TRUE), i + 4)
         [] StartsAt(s, i, LitFalse) -> ParseOk(JBool(FALSE), i + 5)
         [] StartsAt(s, i, LitNull) -> ParseOk(JNull, i + 4)
         [] OTHER -> ParseFail

\* r parsed a value of s: only whitespace may follow it
WholeDocument(s, r) == IF r.ok /\ SkipWs(s, r.pos) = Len(s) + 1 THEN r ELSE ParseFail

\* json.loads(s): ok = FALSE where it raises
JsonLoads(s) == WholeDocument(s, ParseValue(s, SkipWs(s, 1)))

(***************************************************************************)
(* ResearchAgent._extract_json_from_text                                   *)
(***************************************************************************)
\* mutant: the non-greedy r"(\{.*?\})": from the first "{" to the next "}"
BraceSearchNonGreedy(text) ==
    IF \E i \in 1..Len(text) : text[i] = "{" /\ \E j \in (i + 1)..Len(text) : text[j] = "}"
    THEN LET a == CHOOSE i \in 1..Len(text) :
                      text[i] = "{" /\ \A k \in 1..(i - 1) : text[k] # "{"
             b == CHOOSE j \in (a + 1)..Len(text) :
                      text[j] = "}" /\ \A k \in (a + 1)..(j - 1) : text[k] # "}"
         IN [found |-> TRUE, from |-> a, to |-> b]
    ELSE [found |-> FALSE, from |-> 0, to |-> 0]

\* re.search(r"(\{.*\})", text, flags=re.DOTALL): found, and the span of
\* group 1: from the first "{" to the last "}" after it
BraceSearch(text) ==
    IF \E i \in 1..Len(text) : text[i] = "{" /\ \E j \in (i + 1)..Len(text) : text[j] = "}"
    THEN LET a == CHOOSE i \in 1..Len(text) :
                      text[i] = "{" /\ \A k \in 1..(i - 1) : text[k] # "{"
             b == CHOOSE j \in (a + 1)..Len(text) :
                      text[j] = "}" /\ \A k \in (j + 1)..Len(text) : text[k] # "}"
         IN [found |-> TRUE, from |-> a, to |-> b]
    ELSE [found |-> FALSE, from |-> 0, to |-> 0]

\* index k lies in a match of ",\s*<closer>" before the closer itself
InCommaRun(s, k, closer) ==
    /\ s[k] = "," \/ IsSpace(s[k])
    /\ LET c == IF s[k] = "," THEN k
                ELSE IF \E m \in 1..(k - 1) : ~IsSpace(s[m])
                     THEN CHOOSE m \in 1..(k - 1) :
                              ~IsSpace(s[m]) /\ \A n \in (m + 1)..(k - 1) : IsSpace(s[n])
                     ELSE 0
           e == CHOOSE j \in (k + 1)..(Len(s) + 1) :
                    /\ (j = Len(s) + 1 \/ ~IsSpace(s[j]))
                    /\ \A n \in (k + 1)..(j - 1) : IsSpace(s[n])
       IN At(s, c) = "," /\ At(s, e) = closer

RECURSIVE DropCommaRuns(_, _, _, _)
DropCommaRuns(s, lo, hi, closer) ==
    IF lo > hi THEN <<>>
    ELSE IF lo = hi
         THEN IF InCommaRun(s, lo, closer) THEN <<>> ELSE <<s[lo]>>
         ELSE LET mid == (lo + hi) \div 2
              IN DropCommaRuns(s, lo, mid, closer) \o DropCommaRuns(s, mid + 1, hi, closer)

\* re.sub(r",\s*<closer>", "<closer>", s)
SubTrailingComma(s, closer) == DropCommaRuns(s, 1, Len(s), closer)

\* the lenient cleanup: re.sub(r",\s*}", "}", .) then re.sub(r",\s*\]", "]", .)
LenientCleanup(json_str) == SubTrailingComma(SubTrailingComma(json_str, "}"), "]")

\* the inner try: the dict of the cleaned text, or {} when that raises too
LenientLoads(lenient) == IF lenient.ok THEN lenient.val.v ELSE <<>>

\* the outer try: json.loads(json_str), and the lenient cleanup when it raises
LoadsOrCleanup(json_str, strict) ==
    IF strict.ok THEN strict.val.v
    ELSE LenientLoads(JsonLoads(LenientCleanup(json_str)))

\* `if m:` with json_str = m.group(1)
MatchedJson(text, m) ==
    IF ~m.found THEN <<>>
    ELSE LoadsOrCleanup(SubSeq(text, m.from, m.to), JsonLoads(SubSeq(text, m.from, m.to)))

\* the dict _extract_json_from_text returns (<<>> is {})
ExtractJsonFromText(text) ==
    IF Len(text) = 0 THEN <<>> ELSE MatchedJson(text, BraceSearch(text))

(***************************************************************************)
(* str() and repr() of the Python values json.loads produces               *)
(***************************************************************************)
ReprChar(c, q) ==
    CASE c = BSLASH -> <<BSLASH, BSLASH>>
      [] c = "\n" -> <<BSLASH, "n">>
      [] c = "\t" -> <<BSLASH, "t">>
      [] c = "\r" -> <<BSLASH, "r">>
      [] c = "\f" -> <<BSLASH, "x", "0", "c">>
      [] c = q -> <<BSLASH, q>>
      [] OTHER -> <<c>>

RECURSIVE ReprChars(_, _, _, _)
ReprChars(s, lo, hi, q) ==
    IF lo > hi THEN <<>>
    ELSE IF lo = hi THEN ReprChar(s[lo], q)
         ELSE LET mid == (lo + hi) \div 2
              IN ReprChars(s, lo, mid, q) \o ReprChars(s, mid + 1, hi, q)

\* repr(s) of a str: single quotes, unless s holds ' and no "
ReprStr(s) ==
    LET q == IF (\E i \in 1..Len(s) : s[i] = "'") /\ (\A i \in 1..Len(s) : s[i] # QUOTE)
             THEN QUOTE ELSE "'"
    IN <<q>> \o ReprChars(s, 1, Len(s), q) \o <<q>>

RECURSIVE PyRepr(_), ReprItems(_, _), ReprPairs(_, _)

ReprItems(xs, i) ==
    IF i > Len(xs) THEN <<>>
    ELSE (IF i > 1 THEN <<",", " ">> ELSE <<>>) \o PyRepr(xs[i]) \o ReprItems(xs, i + 1)

ReprPairs(d, i) ==
    IF i > Len(d) THEN <<>>
    ELSE (IF i > 1 THEN <<",", " ">> ELSE <<>>)
         \o ReprStr(d[i][1]) \o <<":", " ">> \o PyRepr(d[i][2]) \o ReprPairs(d, i + 1)

PyRepr(x) ==
    CASE x.t = "str" -> ReprStr(x.v)
      [] x.t = "num" -> IntToStr(x.v)
      [] x.t = "bool" -> IF x.v THEN <<"T", "r", "u", "e">> ELSE <<"F", "a", "l", "s", "e">>
      [] x.t = "null" -> <<"N", "o", "n", "e">>
      [] x.t = "arr" -> <<"[">> \o ReprItems(x.v, 1) \o <<"]">>
      [] x.t = "obj" -> <<"{">> \o ReprPairs(x.v, 1) \o <<"}">>

\* str(x)
PyStr(x) == IF x.t = "str" THEN x.v ELSE PyRepr(x)

(***************************************************************************)
(* ResearchAgent.search_company                                            *)
(***************************************************************************)
ContentFields == <<"content", "snippet", "text", "summary">>
UrlFields == <<"url", "link", "source", "href">>

\* a result item is [kind |-> "none"], [kind |-> "str", s |-> text] or
\* [kind |-> "dict", d |-> a record of text fields]
ItemTruthy(r) ==
    CASE r.kind = "none" -> FALSE
      [] r.kind = "str" -> Len(r.s) > 0
      [] r.kind = "dict" -> DOMAIN r.d # {}

\* the first field of `fields` that r holds with a non-empty value, or <<>>
FirstField(r, fields) ==
    IF r.kind = "dict" /\ \E i \in 1..Len(fields) :
                             fields[i] \in DOMAIN r.d /\ Len(r.d[fields[i]]) > 0
    THEN r.d[fields[CHOOSE i \in 1..Len(fields) :
                 /\ fields[i] \in DOMAIN r.d /\ Len(r.d[fields[i]]) > 0
                 /\ \A j \in 1..(i - 1) :
                        ~(fields[j] \in DOMAIN r.d /\ Len(r.d[fields[j]]) > 0)]]
    ELSE <<>>

\* the body text the loop adds for r (<<>>: nothing)
ItemContent(r) ==
    IF ~ItemTruthy(r) THEN <<>>
    ELSE IF r.kind = "str" THEN r.s
         ELSE FirstField(r, ContentFields)

\* the url the loop appends for r (<<>>: none)
ItemUrl(r) == IF ~ItemTruthy(r) THEN <<>> ELSE FirstField(r, UrlFields)

\* the normalised result sequence of a search response
NormaliseResults(raw) ==
    CASE raw.kind = "dict" ->
             IF Len(raw.results) > 0 THEN raw.results
             ELSE IF Len(raw.hits) > 0 THEN raw.hits
                  ELSE raw.items
      [] raw.kind = "list" -> raw.items
      [] raw.kind = "iter" -> raw.items
      [] OTHER -> <<>>

\* mutant: one result too many is processed
TruncateOneMore(results, top_k) ==
    SubSeq(results, 1, IF top_k + 1 < Len(results) THEN top_k + 1 ELSE Len(results))

\* results[:top_k]
Truncate(results, top_k) ==
    IF top_k >= 0 THEN SubSeq(results, 1, IF top_k < Len(results) THEN top_k ELSE Len(results))
    ELSE SubSeq(results, 1, IF Len(results) + top_k > 0 THEN Len(results) + top_k ELSE 0)

RECURSIVE CombinedText(_, _)
CombinedText(rs, i) ==
    IF i > Len(rs) THEN <<>>
    ELSE (IF Len(ItemContent(rs[i])) > 0 THEN ItemContent(rs[i]) \o <<"\n", "\n">> ELSE <<>>)
         \o CombinedText(rs, i + 1)

RECURSIVE CollectUrls(_, _)
CollectUrls(rs, i) ==
    IF i > Len(rs) THEN <<>>
    ELSE (IF Len(ItemUrl(rs[i])) > 0 THEN <<ItemUrl(rs[i])>> ELSE <<>>)
         \o CollectUrls(rs, i + 1)

\* mutant: each url is kept at its last occurrence
DedupeKeepingLast(srcs) ==
    LET Keep(i) == \A j \in (i + 1)..Len(srcs) : srcs[j] # srcs[i]
        F[i \in 0..Len(srcs)] ==
            IF i = 0 THEN <<>>
            ELSE IF Keep(i) THEN Append(F[i - 1], srcs[i]) ELSE F[i - 1]
    IN F[Len(srcs)]

\* the "dedupe sources" loop
Dedupe(srcs) ==
    LET Keep(i) == \A j \in 1..(i - 1) : srcs[j] # srcs[i]
        F[i \in 0..Len(srcs)] ==
            IF i = 0 THEN <<>>
            ELSE IF Keep(i) THEN Append(F[i - 1], srcs[i]) ELSE F[i - 1]
    IN F[Len(srcs)]

\* what search_company returns; raw.kind = "raise" is tavily.search raising
SearchCompanyResult(raw, top_k) ==
    IF raw.kind = "raise" THEN [text |-> <<>>, sources |-> <<>>]
    ELSE LET rs == Truncate(NormaliseResults(raw), top_k)
         IN [text |-> Strip(CombinedText(rs, 1)),
             sources |-> Dedupe(CollectUrls(rs, 1))]

(***************************************************************************)
(* ResearchAgent._call_gemini, after a completion call returned `resp`     *)
(***************************************************************************)
\* a response is [attrs |-> a record over a subset of {"text", "output"},
\* str |-> its str(), strRaises |-> whether str() raises]; attribute values
\* are Python values in the tagged form of JSON values
IsList(x) == x.t = "arr"
IsDict(x) == x.t = "obj"
IsStr(x) == x.t = "str"

PyGet(d, k) == IF DictHas(d.v, k) THEN DictAt(d.v, k) ELSE JNull

KContent == <<"c", "o", "n", "t", "e", "n", "t">>
KContents == <<"c", "o", "n", "t", "e", "n", "t", "s">>
KText == <<"t", "e", "x", "t">>

\* c carries a truthy "text"
HasText(c) == IsDict(c) /\ DictHas(c.v, KText) /\ Truthy(DictAt(c.v, KText))

\* the `elif hasattr(resp, "output")` branch
TextFromOutput(out) ==
    LET first == IF IsList(out) /\ Len(out.v) > 0 THEN out.v[1] ELSE out
    IN IF IsDict(first)
       THEN LET content == IF Truthy(PyGet(first, KContent)) THEN PyGet(first, KContent)
                           ELSE PyGet(first, KContents)
            IN IF IsList(content) /\ Len(content.v) > 0
               THEN IF \E i \in 1..Len(content.v) : HasText(content.v[i])
                    THEN DictAt(content.v[CHOOSE i \in 1..Len(content.v) :
                                    /\ HasText(content.v[i])
                                    /\ \A j \in 1..(i - 1) : ~HasText(content.v[j])].v, KText)
                    ELSE JStr(<<>>)
               ELSE IF IsStr(content) THEN content ELSE JStr(<<>>)
       ELSE IF IsStr(first) THEN first ELSE JStr(<<>>)

\* text_output before the final `(text_output or "").strip()`
RawTextOutput(resp) ==
    IF "text" \in DOMAIN resp.attrs /\ Truthy(resp.attrs.text) THEN resp.attrs.text
    ELSE IF "output" \in DOMAIN resp.attrs THEN TextFromOutput(resp.attrs.output)
         ELSE IF resp.strRaises THEN JStr(<<>>) ELSE JStr(resp.str)

\* what the text extraction returns: raised, or the stripped text
ExtractText(resp) ==
    LET t == RawTextOutput(resp)
    IN IF ~Truthy(t) THEN [raised |-> FALSE, val |-> <<>>]
       ELSE IF IsStr(t) THEN [raised |-> FALSE, val |-> Strip(t.v)]
            ELSE [raised |-> TRUE, val |-> <<>>]

\* mutant: the message names the fallback's exception only
InvocationFailedLastOnly(e, e2) ==
    <<"G", "e", "m", "i", "n", "i", " ", "i", "n", "v", "o", "c", "a", "t", "i", "o", "n",
      " ", "f", "a", "i", "l", "e", "d", ":", " ">> \o e2

\* the message of the RuntimeError raised when both calls failed
InvocationFailed(e, e2) ==
    <<"G", "e", "m", "i", "n", "i", " ", "i", "n", "v", "o", "c", "a", "t", "i", "o", "n",
      " ", "f", "a", "i", "l", "e", "d", ":", " ">> \o e \o <<" ", "/", " ">> \o e2

(***************************************************************************)
(* The template and the plan                                               *)
(***************************************************************************)
K_company_overview ==
    <<"c", "o", "m", "p", "a", "n", "y", "_", "o", "v", "e", "r", "v", "i", "e", "w">>
K_key_findings == <<"k", "e", "y", "_", "f", "i", "n", "d", "i", "n", "g", "s">>
K_pain_points == <<"p", "a", "i", "n", "_", "p", "o", "i", "n", "t", "s">>
K_opportunities == <<"o", "p", "p", "o", "r", "t", "u", "n", "i", "t", "i", "e", "s">>
K_competitors == <<"c", "o", "m", "p", "e", "t", "i", "t", "o", "r", "s">>
K_recommended_strategy ==
    <<"r", "e", "c", "o", "m", "m", "e", "n", "d", "e", "d", "_",
      "s", "t", "r", "a", "t", "e", "g", "y">>
K_sources == <<"s", "o", "u", "r", "c", "e", "s">>
K_confidence_estimate ==
    <<"c", "o", "n", "f", "i", "d", "e", "n", "c", "e", "_",
      "e", "s", "t", "i", "m", "a", "t", "e">>

\* ACCOUNT_PLAN_TEMPLATE.keys(), in order
ACCOUNT_PLAN_TEMPLATE ==
    <<K_company_overview, K_key_findings, K_pain_points,
      K_opportunities, K_competitors, K_recommended_strategy>>

MIN_CHARS == 300

\* the degenerate dict built when the model gave no usable JSON
FallbackObj(text_output) ==
    <<<<K_company_overview, JStr(Strip(text_output))>>,
      <<K_key_findings, JStr(<<>>)>>,
      <<K_pain_points, JStr(<<>>)>>,
      <<K_opportunities, JStr(<<>>)>>,
      <<K_competitors, JStr(<<>>)>>,
      <<K_recommended_strategy, JStr(<<>>)>>>>

\* mutant: an empty dict does not count as "no usable JSON"
NoTruthyValueUnlessEmpty(d) == Len(d) > 0 /\ \A i \in 1..Len(d) : ~Truthy(d[i][2])

\* not any(parsed_obj.values())
NoTruthyValue(d) == \A i \in 1..Len(d) : ~Truthy(d[i][2])

\* parsed_obj after the fallback test
ParsedOrFallback(text_output, parsed_obj) ==
    IF NoTruthyValue(parsed_obj) THEN FallbackObj(text_output) ELSE parsed_obj

\* mutant: a null value is stringified like any other
SectionValueNoneAsText(parsed_obj, k) ==
    IF ~DictHas(parsed_obj, k) THEN <<>> ELSE Strip(PyStr(DictAt(parsed_obj, k)))

\* str(parsed_obj.get(k, "")).strip() if parsed_obj.get(k, "") is not None else ""
SectionValue(parsed_obj, k) ==
    IF ~DictHas(parsed_obj, k) THEN <<>>
    ELSE IF DictAt(parsed_obj, k).t = "null" THEN <<>>
         ELSE Strip(PyStr(DictAt(parsed_obj, k)))

\* mutant: the plan starts as a copy of parsed_obj, so foreign keys stay
RequiredKeysPlanKeepingExtras(parsed_obj) ==
    [i \in 1..Len(ACCOUNT_PLAN_TEMPLATE) |->
        <<ACCOUNT_PLAN_TEMPLATE[i], JStr(SectionValue(parsed_obj, ACCOUNT_PLAN_TEMPLATE[i]))>>]
    \o SelectSeq(parsed_obj,
                 LAMBDA pr : \A i \in 1..Len(ACCOUNT_PLAN_TEMPLATE) :
                                 pr[1] # ACCOUNT_PLAN_TEMPLATE[i])

\* the "Ensure all required keys exist" loop
RequiredKeysPlan(parsed_obj) ==
    [i \in 1..Len(ACCOUNT_PLAN_TEMPLATE) |->
        <<ACCOUNT_PLAN_TEMPLATE[i], JStr(SectionValue(parsed_obj, ACCOUNT_PLAN_TEMPLATE[i]))>>]

\* the plan generate_account_plan hands to _ensure_long_sections
AssemblePlan(text_output) ==
    RequiredKeysPlan(ParsedOrFallback(text_output, ExtractJsonFromText(text_output)))

\* len(str(plan.get(k, "") or ""))
CurrentLen(plan, k) ==
    IF DictHas(plan, k) /\ Truthy(DictAt(plan, k)) THEN Len(PyStr(DictAt(plan, k))) ELSE 0

\* mutant: a section of exactly MIN_CHARS characters is expanded too
KeysToExpandInclusive(plan) ==
    SelectSeq(ACCOUNT_PLAN_TEMPLATE, LAMBDA k : CurrentLen(plan, k) <= MIN_CHARS)

\* keys_to_expand, in template order
KeysToExpand(plan) ==
    SelectSeq(ACCOUNT_PLAN_TEMPLATE, LAMBDA k : CurrentLen(plan, k) < MIN_CHARS)

\* mutant: any non-empty string replaces the section
ImprovesWithoutLengthTest(plan, expanded_obj, k) ==
    /\ DictHas(expanded_obj, k)
    /\ Truthy(DictAt(expanded_obj, k))
    /\ IsStr(DictAt(expanded_obj, k))

\* the merge condition for key k
Improves(plan, expanded_obj, k) ==
    /\ DictHas(expanded_obj, k)
    /\ Truthy(DictAt(expanded_obj, k))
    /\ IsStr(DictAt(expanded_obj, k))
    /\ Len(Strip(DictAt(expanded_obj, k).v)) > CurrentLen(plan, k)

\* mutant: the merge loop visits every template key, candidate or not
RECURSIVE MergeEveryKey(_, _, _, _)
MergeEveryKey(plan, keys, expanded_obj, i) ==
    IF i > Len(ACCOUNT_PLAN_TEMPLATE) THEN plan
    ELSE MergeEveryKey(
             IF Improves(plan, expanded_obj, ACCOUNT_PLAN_TEMPLATE[i])
             THEN DictSet(plan, ACCOUNT_PLAN_TEMPLATE[i],
                          JStr(Strip(DictAt(expanded_obj, ACCOUNT_PLAN_TEMPLATE[i]).v)))
             ELSE plan,
             keys, expanded_obj, i + 1)

\* the merge loop over keys_to_expand
RECURSIVE MergeExpanded(_, _, _, _)
MergeExpanded(plan, keys, expanded_obj, i) ==
    IF i > Len(keys) THEN plan
    ELSE MergeExpanded(
             IF Improves(plan, expanded_obj, keys[i])
             THEN DictSet(plan, keys[i], JStr(Strip(DictAt(expanded_obj, keys[i]).v)))
             ELSE plan,
             keys, expanded_obj, i + 1)

\* mutant: no cap
ConfidenceValueUncapped(n) == 20 + 10 * n

\* min(95, 20 + 10 * n)
ConfidenceValue(n) == IF 20 + 10 * n < 95 THEN 20 + 10 * n ELSE 95

\* f"{min(95, 20 + 10 * len(plan['sources']))}%"
ConfidenceEstimate(n) == IntToStr(ConfidenceValue(n)) \o <<"%">>

\* plan["sources"] = sources or []; plan["confidence_estimate"] = ...
AttachSources(plan, srcs) ==
    DictSet(DictSet(plan, K_sources, JArr([i \in 1..Len(srcs) |-> JStr(srcs[i])])),
            K_confidence_estimate, JStr(ConfidenceEstimate(Len(srcs))))

(***************************************************************************)
(* json.dumps, used to build the texts a completion call may return        *)
(***************************************************************************)
EscapeChar(c) ==
    CASE c = QUOTE -> <<BSLASH, QUOTE>>
      [] c = BSLASH -> <<BSLASH, BSLASH>>
      [] c = "\n" -> <<BSLASH, "n">>
      [] c = "\t" -> <<BSLASH, "t">>
      [] c = "\r" -> <<BSLASH, "r">>
      [] c = "\f" -> <<BSLASH, "f">>
      [] OTHER -> <<c>>

RECURSIVE EscapeChars(_, _, _)
EscapeChars(s, lo, hi) ==
    IF lo > hi THEN <<>>
    ELSE IF lo = hi THEN EscapeChar(s[lo])
         ELSE LET mid == (lo + hi) \div 2
              IN EscapeChars(s, lo, mid) \o EscapeChars(s, mid + 1, hi)

DumpStr(s) == <<QUOTE>> \o EscapeChars(s, 1, Len(s)) \o <<QUOTE>>

\* json.dumps(x); tc is <<>>, or <<",">> to write a trailing comma before
\* every closing "}" and "]" of a non-empty object or array
RECURSIVE Dump(_, _), DumpItems(_, _, _), DumpPairs(_, _, _)

DumpItems(xs, i, tc) ==
    IF i > Len(xs) THEN <<>>
    ELSE (IF i > 1 THEN <<",", " ">> ELSE <<>>) \o Dump(xs[i], tc) \o DumpItems(xs, i + 1, tc)

DumpPairs(d, i, tc) ==
    IF i > Len(d) THEN <<>>
    ELSE (IF i > 1 THEN <<",", " ">> ELSE <<>>)
         \o DumpStr(d[i][1]) \o <<":", " ">> \o Dump(d[i][2], tc) \o DumpPairs(d, i + 1, tc)

Dump(x, tc) ==
    CASE x.t = "str" -> DumpStr(x.v)
      [] x.t = "num" -> IntToStr(x.v)
      [] x.t = "bool" -> IF x.v THEN LitTrue ELSE LitFalse
      [] x.t = "null" -> LitNull
      [] x.t = "arr" -> <<"[">> \o DumpItems(x.v, 1, tc)
                        \o (IF Len(x.v) > 0 THEN tc ELSE <<>>) \o <<"]">>
      [] x.t = "obj" -> <<"{">> \o DumpPairs(x.v, 1, tc)
                        \o (IF Len(x.v) > 0 THEN tc ELSE <<>>) \o <<"}">>

JsonDumps(x) == Dump(x, <<>>)

JsonDumpsTrailingComma(x) == Dump(x, <<",">>)

(***************************************************************************)
(* Inputs: what the collaborators may answer                               *)
(***************************************************************************)
MaxSources == 10
DefaultTopK == 8

Rep(c, n) == [i \in 1..n |-> c]

ErrTimeout == <<"t", "i", "m", "e", "o", "u", "t">>
ErrQuota == <<"q", "u", "o", "t", "a">>
ErrMsgs == {ErrTimeout, ErrQuota}

\* n result records with distinct bodies and urls
UrlItems(n) ==
    [i \in 1..n |-> [kind |-> "dict",
                     d |-> [content |-> <<"c">> \o IntToStr(i), url |-> <<"u">> \o IntToStr(i)]]]

\* a bare list whose urls repeat, under several field names
DupItems ==
    <<[kind |-> "dict", d |-> [snippet |-> <<"s">>, link |-> <<"a">>]],
      [kind |-> "none"],
      [kind |-> "dict", d |-> [url |-> <<"b">>, href |-> <<"a">>]],
      [kind |-> "str", s |-> <<"r", "a", "w">>],
      [kind |-> "dict", d |-> [text |-> <<"t">>, source |-> <<"a">>]],
      [kind |-> "dict", d |-> [summary |-> <<"m">>, url |-> <<>>, href |-> <<"c">>]]>>

\* what tavily.search may do
SearchResponses ==
    {[kind |-> "raise"],
     [kind |-> "dict", results |-> <<>>, hits |-> DupItems, items |-> UrlItems(2)]}

TopKs == {DefaultTopK}

Short == <<"A", "c", "m", "e">>
Longer == <<"A", "c", "m", "e", " ", "I", "n", "c">>
Padded == <<" ", " ", "A", "c", "m", "e", " ", "C", "o", " ", "\n">>
PaddedShort == <<" ", " ", "A", "c", " ", " ">>
AlmostLong == Rep("y", MIN_CHARS - 1)
Long == Rep("x", MIN_CHARS)
VeryLong == Rep("z", MIN_CHARS + 1)
Fifty == Rep("p", 50)
Forty == Rep("q", 40)
KNotes == <<"n", "o", "t", "e", "s">>

\* the values a section may carry in the model's JSON
SectionOptions ==
    {JStr(<<>>), JStr(Short), JStr(Longer), JStr(Padded), JStr(PaddedShort),
     JStr(AlmostLong), JStr(Long), JStr(VeryLong), JStr(Fifty), JStr(Forty),
     JNull, JNum(7), JNum(0), JArr(<<JStr(Short), JNull>>)}

OtherKeys(v) == [i \in 1..5 |-> <<ACCOUNT_PLAN_TEMPLATE[i + 1], v>>]

\* what the model says about the keys other than company_overview
Fillers ==
    {<<>>, OtherKeys(JStr(Long)), OtherKeys(JStr(VeryLong)),
     <<<<K_key_findings, JStr(Short)>>, <<KNotes, JStr(VeryLong)>>,
       <<K_pain_points, JNull>>, <<K_competitors, JStr(Longer)>>>>}

\* the JSON objects the model may answer with
ModelObjects ==
    Fillers
    \cup {<<<<K_company_overview, o>>>> : o \in SectionOptions}
    \cup {<<<<K_company_overview, JStr(o)>>>> \o f :
             o \in {Longer, VeryLong}, f \in Fillers}

Prose == <<"H", "e", "r", "e", " ", "i", "t", " ", "i", "s", ":", " ">>

\* the texts the model may answer with
ModelTexts ==
    {JsonDumps(JObj(d)) : d \in ModelObjects}
    \cup {JsonDumpsTrailingComma(JObj(<<<<K_company_overview, JStr(Longer)>>>> \o f)) :
             f \in Fillers}
    \cup {Prose \o JsonDumps(JObj(<<<<K_company_overview, JStr(Longer)>>>> \o f)) \o <<"\n">> :
             f \in Fillers}
    \cup {<<>>, <<" ", "I", " ", "c", "a", "n", "n", "o", "t", ".", " ", "\n">>,
          Rep("w", MIN_CHARS), <<"{", "o", "o", "p", "s">>}

TextResp(t) == [attrs |-> [text |-> JStr(t)], str |-> <<>>, strRaises |-> FALSE]

OutputResp(out) == [attrs |-> [output |-> out], str |-> <<>>, strRaises |-> FALSE]

\* the same answer t in the other shapes a response may have, and ill-typed ones
ShapedResponses(t) ==
    {OutputResp(JArr(<<JObj(<<<<KContent, JStr(t)>>>>)>>)),
     OutputResp(JArr(<<JObj(<<<<KContent,
         JArr(<<JObj(<<<<KText, JStr(<<>>)>>>>), JObj(<<<<KText, JStr(t)>>>>)>>)>>>>)>>)),
     OutputResp(JObj(<<<<KContents, JStr(t)>>>>)),
     OutputResp(JStr(t)),
     OutputResp(JArr(<<>>)),
     OutputResp(JArr(<<JObj(<<<<KContent, JArr(<<JObj(<<<<KText, JNum(5)>>>>)>>)>>>>)>>)),
     [attrs |-> [text |-> JNull, output |-> JArr(<<JStr(t)>>)], str |-> <<>>, strRaises |-> FALSE],
     [attrs |-> [text |-> JNum(5)], str |-> <<>>, strRaises |-> FALSE],
     [attrs |-> [text |-> JArr(<<JStr(t)>>)], str |-> <<>>, strRaises |-> FALSE],
     [attrs |-> <<>>, str |-> t, strRaises |-> FALSE],
     [attrs |-> <<>>, str |-> <<>>, strRaises |-> TRUE]}

\* what a completion call may return
Responses ==
    {TextResp(t) : t \in ModelTexts}
    \cup ShapedResponses(JsonDumps(JObj(<<<<K_company_overview, JStr(Longer)>>>>)))

\* what the fallback call may return: one answer of each kind
FallbackResponses ==
    {TextResp(<<"n", "o", " ", "j", "s", "o", "n">>),
     TextResp(JsonDumps(JObj(<<<<K_company_overview, JStr(Longer)>>>>))),
     TextResp(JsonDumps(JObj(<<<<K_company_overview, JStr(VeryLong)>>>>
                             \o OtherKeys(JStr(VeryLong))))),
     [attrs |-> [text |-> JNum(5)], str |-> <<>>, strRaises |-> FALSE]}

(***************************************************************************)
(* The pipeline: search_company, then generate_account_plan                *)
(***************************************************************************)
VARIABLES
    pc,             \* "start", "searched", "primary", "fallback", "done", "raised";
                    \* "json", "json_done" for _extract_json_from_text on its own
    search_call,    \* the call of tavily.search: its limit and what it answered
    research_data,  \* the evidence text search_company returned
    sources,        \* the source list search_company returned
    req,            \* the completion request in progress: "none", "synth", "expand"
    primary_err,    \* _call_gemini's e: the primary call's exception, while in scope
    text_output,    \* generate_account_plan's text_output
    plan,           \* the plan dict
    keys_to_expand, \* _ensure_long_sections' keys_to_expand
    expanded_obj,   \* _ensure_long_sections' expanded_obj
    error,          \* the exception generate_account_plan raised
    calls,          \* the completion calls made so far, in order
    json_case,      \* an object and the prose around its serialisation
    json_result     \* what _extract_json_from_text returned for it

vars == <<pc, search_call, research_data, sources, req, primary_err, text_output, plan,
          keys_to_expand, expanded_obj, error, calls, json_case, json_result>>

NoError == [kind |-> "none", msg |-> <<>>]
NoSearch == [made |-> FALSE, top_k |-> 0, raw |-> [kind |-> "other"]]
NoResponse == [attrs |-> <<>>, str |-> <<>>, strRaises |-> FALSE]
NoJsonCase == [obj |-> <<>>, pre |-> <<>>, post |-> <<>>, comma |-> FALSE]

\* nothing has been called yet
Fresh ==
    /\ search_call = NoSearch
    /\ research_data = <<>>
    /\ sources = <<>>
    /\ req = "none"
    /\ primary_err = <<>>
    /\ text_output = <<>>
    /\ plan = <<>>
    /\ keys_to_expand = <<>>
    /\ expanded_obj = <<>>
    /\ error = NoError
    /\ calls = <<>>
    /\ json_result = <<>>

Init == pc = "start" /\ Fresh /\ json_case = NoJsonCase

\* search_company(company_name, top_k)
SearchCompany(searchResponses, topKs) ==
    /\ pc = "start"
    /\ \E raw \in searchResponses, top_k \in topKs :
           /\ search_call' = [made |-> TRUE, top_k |-> top_k, raw |-> raw]
           /\ research_data' = SearchCompanyResult(raw, top_k).text
           /\ sources' = SearchCompanyResult(raw, top_k).sources
    /\ pc' = "searched"
    /\ UNCHANGED <<req, primary_err, text_output, plan, keys_to_expand, expanded_obj, error, calls,
                   json_case, json_result>>

\* generate_account_plan(research_data, sources, company_name) up to its
\* first completion call
GenerateAccountPlan ==
    /\ pc = "searched"
    /\ req' = "synth"
    /\ pc' = "primary"
    /\ UNCHANGED <<search_call, research_data, sources, primary_err, text_output, plan,
                   keys_to_expand, expanded_obj, error, calls, json_case, json_result>>

\* the exception of the final len(text_output or "") / .strip() on a non-str
NotAString(t) ==
    [kind |-> IF t.t \in {"num", "bool"} THEN "TypeError" ELSE "AttributeError", msg |-> <<>>]

\* generate_account_plan from the assembled plan p on: return it when no
\* key is short, else start the expansion request
EnsureLongSections(p, ks) ==
    /\ keys_to_expand' = ks
    /\ expanded_obj' = expanded_obj
    /\ IF Len(ks) = 0
       THEN /\ plan' = AttachSources(p, sources)
            /\ pc' = "done"
            /\ req' = req
       ELSE /\ plan' = p
            /\ pc' = "primary"
            /\ req' = "expand"

\* generate_account_plan after its first _call_gemini returned text
Synthesised(text, p) ==
    /\ text_output' = text
    /\ error' = error
    /\ EnsureLongSections(p, KeysToExpand(p))

\* mutant: the expansion is asked again while a section stays short
AskAgainWhileShort(merged) ==
    IF Len(KeysToExpand(merged)) = 0
    THEN plan' = AttachSources(merged, sources) /\ pc' = "done"
    ELSE plan' = merged /\ pc' = "primary"

ExpandedUntilLong(text) ==
    /\ expanded_obj' = ExtractJsonFromText(text)
    /\ AskAgainWhileShort(MergeExpanded(plan, keys_to_expand, expanded_obj', 1))
    /\ UNCHANGED <<req, text_output, keys_to_expand, error>>

\* _ensure_long_sections after its _call_gemini returned text, and the rest
\* of generate_account_plan
Expanded(text) ==
    /\ expanded_obj' = ExtractJsonFromText(text)
    /\ plan' = AttachSources(
                   MergeExpanded(plan, keys_to_expand, expanded_obj', 1),
                   sources)
    /\ pc' = "done"
    /\ UNCHANGED <<req, text_output, keys_to_expand, error>>

\* _call_gemini's text extraction gave x for the response whose raw text is t
Extracted(x, t) ==
    IF x.raised
    THEN /\ pc' = "raised"
         /\ error' = NotAString(t)
         /\ UNCHANGED <<req, text_output, plan, keys_to_expand, expanded_obj>>
    ELSE IF req = "synth" THEN Synthesised(x.val, AssemblePlan(x.val))
         ELSE Expanded(x.val)

\* the code that runs once a completion call has returned resp, up to the
\* next completion call or the end of generate_account_plan
Continue(resp) == Extracted(ExtractText(resp), RawTextOutput(resp))

Returned(path, resp) ==
    [req |-> req, path |-> path, ok |-> TRUE, err |-> <<>>, resp |-> resp]

Raised(path, e) ==
    [req |-> req, path |-> path, ok |-> FALSE, err |-> e, resp |-> NoResponse]

\* mutant: the fallback call is made although the primary call returned
PrimaryReturnsThenFallback(responses) ==
    /\ pc = "primary"
    /\ \E resp \in responses : calls' = Append(calls, Returned("primary", resp))
    /\ pc' = "fallback"
    /\ UNCHANGED <<search_call, research_data, sources, req, primary_err, text_output, plan,
                   keys_to_expand, expanded_obj, error, json_case, json_result>>

\* client.models.generate_content returns
PrimaryReturns(responses) ==
    /\ pc = "primary"
    /\ \E resp \in responses :
           /\ Continue(resp)
           /\ calls' = Append(calls, Returned("primary", resp))
    /\ UNCHANGED <<search_call, research_data, sources, primary_err, json_case, json_result>>

\* client.models.generate_content raises
PrimaryRaises ==
    /\ pc = "primary"
    /\ \E e \in ErrMsgs :
           /\ primary_err' = e
           /\ calls' = Append(calls, Raised("primary", e))
    /\ pc' = "fallback"
    /\ UNCHANGED <<search_call, research_data, sources, req, text_output, plan,
                   keys_to_expand, expanded_obj, error, json_case, json_result>>

\* client.generate returns
FallbackReturns(responses) ==
    /\ pc = "fallback"
    /\ \E resp \in responses :
           /\ Continue(resp)
           /\ calls' = Append(calls, Returned("fallback", resp))
    /\ primary_err' = <<>>
    /\ UNCHANGED <<search_call, research_data, sources, json_case, json_result>>

\* client.generate raises: RuntimeError(f"Gemini invocation failed: {e} / {e2}")
FallbackRaises ==
    /\ pc = "fallback"
    /\ \E e2 \in ErrMsgs :
           /\ error' = [kind |-> "RuntimeError", msg |-> InvocationFailed(primary_err, e2)]
           /\ calls' = Append(calls, Raised("fallback", e2))
    /\ pc' = "raised"
    /\ UNCHANGED <<search_call, research_data, sources, req, primary_err, text_output, plan,
                   keys_to_expand, expanded_obj, json_case, json_result>>

Next ==
    \/ SearchCompany(SearchResponses, TopKs)
    \/ GenerateAccountPlan
    \/ PrimaryReturns(Responses)
    \/ PrimaryRaises
    \/ FallbackReturns(FallbackResponses)
    \/ FallbackRaises

Spec == Init /\ [][Next]_vars

(***************************************************************************)
(* The pipeline over source lists of every length up to MaxSources         *)
(***************************************************************************)
ManySources ==
    {[kind |-> "dict", results |-> UrlItems(MaxSources), hits |-> <<>>, items |-> <<>>]}

NextSources ==
    \/ SearchCompany(ManySources, 0..MaxSources)
    \/ GenerateAccountPlan
    \/ PrimaryReturns(FallbackResponses)
    \/ PrimaryRaises
    \/ FallbackReturns(FallbackResponses)
    \/ FallbackRaises

SpecSources == Init /\ [][NextSources]_vars

(***************************************************************************)
(* search_company over every short result sequence                         *)
(***************************************************************************)
MaxResults == 4

UrlA == <<"a">>
UrlB == <<"b">>
UrlC == <<"c">>

ResultItems ==
    {[kind |-> "dict", d |-> [content |-> <<"x">>, url |-> UrlA]],
     [kind |-> "dict", d |-> [snippet |-> <<"y">>, url |-> <<>>, link |-> UrlB]],
     [kind |-> "dict", d |-> [source |-> UrlC, href |-> UrlA]],
     [kind |-> "dict", d |-> [href |-> UrlA]],
     [kind |-> "dict", d |-> [text |-> <<"z">>]],
     [kind |-> "dict", d |-> [title |-> <<"t">>]],
     [kind |-> "none"]}

ResultSeqs == UNION {[1..n -> ResultItems] : n \in 0..MaxResults}

AllSearchResponses ==
    {[kind |-> "raise"], [kind |-> "list", items |-> DupItems],
     [kind |-> "dict", results |-> <<>>, hits |-> <<>>, items |-> DupItems]}
    \cup {[kind |-> "list", items |-> rs] : rs \in ResultSeqs}

NextSearch == SearchCompany(AllSearchResponses, 0..(MaxResults + 1))

SpecSearch == Init /\ [][NextSearch]_vars

(***************************************************************************)
(* _extract_json_from_text on a serialised object inside prose             *)
(***************************************************************************)
MaxProse == 2

KA == <<"a">>
KB == <<"b">>

JsonValues ==
    {JStr(<<"x">>), JStr(<<"x", ",", "}">>), JStr(<<",", " ", "]">>),
     JStr(<<"}", QUOTE, "{">>), JNum(1), JNull,
     JArr(<<JNum(1), JStr(<<"y">>)>>), JObj(<<<<KB, JBool(TRUE)>>>>)}

JsonObjects ==
    {<<>>, <<<<KA, JNum(1)>>, <<KB, JStr(<<"y", ",", "]">>)>>>>,
     <<<<KB, JArr(<<>>)>>, <<KA, JObj(<<>>)>>>>}
    \cup {<<<<KA, v>>>> : v \in JsonValues}

ProseTexts == UNION {[1..n -> {"x", "{", "}"}] : n \in 0..MaxProse}

JsonCases ==
    [obj : JsonObjects, pre : ProseTexts, post : ProseTexts, comma : BOOLEAN]

\* the text handed to _extract_json_from_text
CaseText(c) ==
    c.pre \o (IF c.comma THEN JsonDumpsTrailingComma(JObj(c.obj)) ELSE JsonDumps(JObj(c.obj)))
          \o c.post

InitJson == pc = "json" /\ Fresh /\ json_case \in JsonCases

\* _extract_json_from_text(text)
ExtractJson ==
    /\ pc = "json"
    /\ json_result' = ExtractJsonFromText(CaseText(json_case))
    /\ pc' = "json_done"
    /\ UNCHANGED <<search_call, research_data, sources, req, primary_err, text_output,
                   plan, keys_to_expand, expanded_obj, error, calls, json_case>>

NextJson == ExtractJson

SpecJson == InitJson /\ [][NextJson]_vars

\* _extract_json_from_text on a text that holds two serialised objects
Separators == {<<" ", "a", "n", "d", " ">>, <<"\n">>, <<",", " ">>}

BlockObjects ==
    {<<<<KA, JNum(1)>>>>, <<<<KB, JStr(<<"y">>)>>>>,
     <<<<KA, JObj(<<<<KB, JNull>>>>)>>>>, <<<<KA, JNum(1)>>, <<KB, JArr(<<JNum(2)>>)>>>>}

BlockCases ==
    [obj : BlockObjects, second : BlockObjects, sep : Separators,
     pre : {<<>>, Prose}, post : {<<>>, <<".">>}, comma : {FALSE}]

\* the text handed to _extract_json_from_text
BlockText(c) ==
    c.pre \o JsonDumps(JObj(c.obj)) \o c.sep \o JsonDumps(JObj(c.second)) \o c.post

InitBlocks == pc = "blocks" /\ Fresh /\ json_case \in BlockCases

\* _extract_json_from_text(text)
ExtractJsonBlocks ==
    /\ pc = "blocks"
    /\ json_result' = ExtractJsonFromText(BlockText(json_case))
    /\ pc' = "blocks_done"
    /\ UNCHANGED <<search_call, research_data, sources, req, primary_err, text_output,
                   plan, keys_to_expand, expanded_obj, error, calls, json_case>>

NextBlocks == ExtractJsonBlocks

SpecBlocks == InitBlocks /\ [][NextBlocks]_vars

(***************************************************************************)
(* Properties                                                              *)
(***************************************************************************)
RequiredKeys ==
    {K_company_overview, K_key_findings, K_pain_points,
     K_opportunities, K_competitors, K_recommended_strategy}

\* the keys and value types of a returned plan
SchemaComplete(p) ==
    /\ DictKeys(p) = RequiredKeys \cup {K_sources, K_confidence_estimate}
    /\ Len(p) = 8
    /\ \A k \in RequiredKeys : DictAt(p, k).t = "str"

\* Python dict equality of two dicts
SameMapping(d1, d2) ==
    /\ DictKeys(d1) = DictKeys(d2)
    /\ \A k \in DictKeys(d1) : DictAt(d1, k) = DictAt(d2, k)

LastCall == calls[Len(calls)]

\* both calls of the request in progress raised
TransportFailed(r) ==
    /\ Len(calls) >= 2
    /\ LastCall.req = r /\ LastCall.path = "fallback" /\ ~LastCall.ok
    /\ calls[Len(calls) - 1].req = r /\ calls[Len(calls) - 1].path = "primary"
    /\ ~calls[Len(calls) - 1].ok

\* the text _call_gemini returned for a call that returned a string
CallText(c) == ExtractText(c.resp).val

\* a call that returned text holding no parsable JSON object
NoJson(c) ==
    /\ c.ok
    /\ ~ExtractText(c.resp).raised
    /\ Len(ExtractJsonFromText(CallText(c))) = 0

\* C1: whenever generate_account_plan returns, the plan's keys are exactly the
\* six template keys plus sources and confidence_estimate, and every template
\* key holds a string.
C1_SchemaCompleteness == pc = "done" => SchemaComplete(plan)

\* a plan returned after an expansion round, for model output that held a
\* key outside the template
C1_Witness ==
    /\ pc = "done"
    /\ Len(calls) = 2
    /\ Contains(text_output, <<QUOTE>> \o KNotes \o <<QUOTE>>)

\* C2: when the expansion round fails (both completion calls raise, or the
\* answer cannot be parsed), generate_account_plan does not raise and returns
\* the plan with the section values it had before the round.
C2_ExpansionFailureSwallowed ==
    /\ TransportFailed("expand") => pc = "done"
    /\ (pc = "done" /\ LastCall.req = "expand" /\ NoJson(LastCall))
           => \A k \in RequiredKeys : DictAt(plan, k) = DictAt(AssemblePlan(text_output), k)

\* C3: when both calls of the synthesis request raise, generate_account_plan
\* raises one error whose message holds both messages, and returns no plan.
C3_TotalTransportFailure ==
    TransportFailed("synth") =>
        /\ pc = "raised"
        /\ error.kind = "RuntimeError"
        /\ Contains(error.msg, calls[1].err)
        /\ Contains(error.msg, calls[2].err)
        /\ Len(plan) = 0

\* the synthesis request failed with two different messages
C3_Witness ==
    /\ TransportFailed("synth")
    /\ pc = "raised"
    /\ calls[1].err = ErrTimeout
    /\ calls[2].err = ErrQuota

SearchRaised == search_call.made /\ search_call.raw.kind = "raise"

CannotText == <<" ", "I", " ", "c", "a", "n", "n", "o", "t", ".", " ", "\n">>

\* C4: when tavily.search raises and every completion call returns text
\* without a parsable JSON object, the pipeline does not raise and returns
\* company_overview = the trimmed text of the first call, the other five
\* keys empty, sources = [] and confidence_estimate = "20%".
C4_GracefulDegradation ==
    (SearchRaised /\ \A i \in 1..Len(calls) : NoJson(calls[i])) =>
        /\ pc # "raised"
        /\ pc = "done" =>
              /\ SchemaComplete(plan)
              /\ DictAt(plan, K_company_overview).v = CallText(calls[1])
              /\ calls[1].resp = TextResp(CannotText) =>
                     DictAt(plan, K_company_overview).v
                         = <<"I", " ", "c", "a", "n", "n", "o", "t", ".">>
              /\ \A k \in RequiredKeys \ {K_company_overview} : DictAt(plan, k).v = <<>>
              /\ DictAt(plan, K_sources) = JArr(<<>>)
              /\ DictAt(plan, K_confidence_estimate).v = <<"2", "0", "%">>

\* the degenerate plan returned after two answers without JSON
C4_Witness ==
    /\ pc = "done"
    /\ SearchRaised
    /\ Len(calls) = 2
    /\ calls[1].resp = TextResp(CannotText)
    /\ NoJson(calls[2])
    /\ DictAt(plan, K_company_overview).v = <<"I", " ", "c", "a", "n", "n", "o", "t", ".">>

\* C5: the pipeline either returns a schema-complete plan, or raises, and
\* then both the primary and the fallback call of one request raised.
C5_RaisesOnlyOnTransportFailure ==
    /\ pc = "done" => SchemaComplete(plan)
    /\ pc = "raised" => TransportFailed(req)

\* the step in which _ensure_long_sections merges an expansion answer
ExpansionMerge == req = "expand" /\ pc \in {"primary", "fallback"} /\ pc' = "done"

\* what the merge rule allows: no section gets shorter, and a section changes
\* only to a returned non-empty string longer than it was
MergeRespectsRule(before, after, returned) ==
    \A k \in RequiredKeys :
        /\ Len(DictAt(after, k).v) >= Len(DictAt(before, k).v)
        /\ DictAt(after, k) # DictAt(before, k) =>
              /\ DictHas(returned, k)
              /\ DictAt(returned, k).t = "str"
              /\ Len(DictAt(returned, k).v) > 0
              /\ Len(DictAt(returned, k).v) > Len(DictAt(before, k).v)

\* C6: the merge never shortens a section, and replaces one only by a
\* returned non-empty string that is strictly longer than the current value.
C6_ExpansionMonotone ==
    [][ExpansionMerge => MergeRespectsRule(plan, plan', expanded_obj')]_vars

\* a section of 50 characters kept although the expansion returned 40
C6_Witness ==
    /\ pc = "done"
    /\ Len(calls) = 2
    /\ LastCall.ok
    /\ LastCall.resp = TextResp(JsonDumps(JObj(<<<<K_company_overview, JStr(Forty)>>>>)))
    /\ DictAt(plan, K_company_overview) = JStr(Fifty)

\* the number a confidence string shows before its "%"
PercentShown(c) == DigitsVal(c, 1, Len(c) - 1)

\* C7: confidence_estimate is min(95, 20 + 10 * n) followed by "%" for n
\* sources: "20%" for 0, "70%" for 5, "95%" for 10, non-decreasing in n and
\* never above 95.
C7_ConfidenceFormula ==
    pc = "done" =>
        LET n == Len(DictAt(plan, K_sources).v)
            c == DictAt(plan, K_confidence_estimate).v
        IN /\ n = Len(sources)
           /\ c[Len(c)] = "%"
           /\ \A i \in 1..(Len(c) - 1) : IsDigit(c[i])
           /\ c[1] # "0"
           /\ PercentShown(c) = (IF n <= 7 THEN 20 + 10 * n ELSE 95)
           /\ PercentShown(c) <= 95
           /\ n >= 1 => PercentShown(c) >= (IF n <= 8 THEN 10 + 10 * n ELSE 95)
           /\ n = 0 => c = <<"2", "0", "%">>
           /\ n = 5 => c = <<"7", "0", "%">>
           /\ n = 10 => c = <<"9", "5", "%">>

\* a plan returned for ten sources
C7_Witness ==
    /\ pc = "done"
    /\ Len(sources) = 10
    /\ DictAt(plan, K_confidence_estimate).v = <<"9", "5", "%">>

\* the urls search_company extracts, in result order
ExtractedUrls ==
    CollectUrls(Truncate(NormaliseResults(search_call.raw), search_call.top_k), 1)

FirstIndex(seq, x) == CHOOSE i \in 1..Len(seq) : seq[i] = x /\ \A j \in 1..(i - 1) : seq[j] # x

\* C8: the sources search_company returns hold every extracted url exactly
\* once, in order of first occurrence, and nothing else.
C8_SourceDedup ==
    (pc = "searched" /\ search_call.raw.kind # "raise") =>
        /\ \A i, j \in 1..Len(sources) : i # j => sources[i] # sources[j]
        /\ {sources[i] : i \in 1..Len(sources)}
               = {ExtractedUrls[i] : i \in 1..Len(ExtractedUrls)}
        /\ \A i, j \in 1..Len(sources) :
               i < j => FirstIndex(ExtractedUrls, sources[i])
                            < FirstIndex(ExtractedUrls, sources[j])
        /\ ExtractedUrls = <<UrlA, UrlB, UrlA, UrlC>> => sources = <<UrlA, UrlB, UrlC>>

\* the urls [a, b, a, c] gave [a, b, c]
C8_Witness ==
    /\ pc = "searched"
    /\ ExtractedUrls = <<UrlA, UrlB, UrlA, UrlC>>
    /\ sources = <<UrlA, UrlB, UrlC>>

HasChar(s, c) == \E i \in 1..Len(s) : s[i] = c

C10_TrailingCommaEquivalence ==
    (pc = "json_done" /\ json_case.comma
        /\ Len(json_case.pre) = 0 /\ Len(json_case.post) = 0)
    => /\ SameMapping(json_result,
                      ExtractJsonFromText(CaseText([json_case EXCEPT !.comma = FALSE])))
       /\ SameMapping(json_result, json_case.obj)

\* C11: once a completion call has returned a response, the text extraction
\* of _call_gemini gives a string for it and never raises: the run is never
\* ended by an exception after a call that returned.
C11_TextExtractionNeverRaises ==
    /\ \A i \in 1..Len(calls) : calls[i].ok => ~ExtractText(calls[i].resp).raised
    /\ (pc = "raised" /\ Len(calls) > 0) => ~LastCall.ok
\* every section of plan p has at least MIN_CHARS characters
AllLong(p) == \A k \in RequiredKeys : Len(DictAt(p, k).v) >= MIN_CHARS

\* for the plan p handed to _ensure_long_sections: when it has no short
\* section, no expansion call is made and the sections are returned as they are
NoCandidateShortcut(p) ==
    AllLong(p) =>
        /\ pc = "done"
        /\ Len(keys_to_expand) = 0
        /\ \A i \in 1..Len(calls) : calls[i].req = "synth"
        /\ Len(calls) <= 2
        /\ LastCall.ok
        /\ \A k \in RequiredKeys : DictAt(plan, k) = DictAt(p, k)

\* C12: when every section of the assembled plan has at least 300
\* characters, _ensure_long_sections makes no completion call (neither
\* primary nor fallback) and returns every key and value unchanged.
C12_NoCandidateShortcut ==
    (req # "none" /\ Len(text_output) > 0) => NoCandidateShortcut(AssemblePlan(text_output))

\* a run that ended after the synthesis call alone: one section has 301
\* characters, the five others exactly 300
C12_Witness ==
    /\ pc = "done"
    /\ Len(calls) = 1
    /\ DictAt(plan, K_company_overview) = JStr(VeryLong)
    /\ \A k \in RequiredKeys \ {K_company_overview} : DictAt(plan, k) = JStr(Long)
\* the positions in calls of the calls of request r made on the given path
CallsOf(r, path) == {i \in 1..Len(calls) : calls[i].req = r /\ calls[i].path = path}

\* C13: within one completion request the fallback call is made only right
\* after the primary call of that request raised, each path is tried at most
\* once, and after a primary call that returned no fallback call follows.
C13_FallbackOrdering ==
    /\ \A i \in 1..Len(calls) :
           calls[i].path = "fallback" =>
               /\ i > 1
               /\ calls[i - 1].path = "primary"
               /\ calls[i - 1].req = calls[i].req
               /\ ~calls[i - 1].ok
    /\ \A i \in 1..Len(calls) :
           (calls[i].path = "primary" /\ calls[i].ok) =>
               \A j \in (i + 1)..Len(calls) :
                   ~(calls[j].path = "fallback" /\ calls[j].req = calls[i].req)
    /\ \A r \in {"synth", "expand"} :
           /\ Cardinality(CallsOf(r, "primary")) <= 1
           /\ Cardinality(CallsOf(r, "fallback")) <= 1
    /\ pc = "fallback" => (Len(calls) > 0 /\ LastCall.path = "primary" /\ ~LastCall.ok)
    /\ \A i \in 1..Len(calls) : calls[i].path \in {"primary", "fallback"}

\* a run whose synthesis request needed the fallback call and whose expansion
\* request was answered by the primary call
C13_Witness ==
    /\ pc = "done"
    /\ Len(calls) = 3
    /\ calls[1].req = "synth" /\ calls[1].path = "primary" /\ ~calls[1].ok
    /\ calls[2].req = "synth" /\ calls[2].path = "fallback" /\ calls[2].ok
    /\ calls[3].req = "expand" /\ calls[3].path = "primary" /\ calls[3].ok
\* for the plan p assembled from the synthesis answer: once the run is over
\* without an exception, an expansion request was made exactly when p had a
\* short section
ExpansionIffShort(p) ==
    (Cardinality(CallsOf("expand", "primary")) = 1) <=> ~AllLong(p)

\* C14: a run makes one synthesis request and then, exactly when a section is
\* shorter than 300 characters after synthesis, one expansion request and no
\* more (also when sections stay short); the expansion request starts only
\* after the synthesis request has returned.
C14_OneExpansionRequest ==
    /\ Cardinality(CallsOf("synth", "primary")) <= 1
    /\ Cardinality(CallsOf("expand", "primary")) <= 1
    /\ Len(calls) > 0 => calls[1].req = "synth"
    /\ \A i \in 1..Len(calls) :
           calls[i].req = "expand" =>
               /\ i > 1
               /\ \E j \in 1..(i - 1) : calls[j].req = "synth" /\ calls[j].ok
               /\ \A j \in i..Len(calls) : calls[j].req = "expand"
    /\ req = "expand" => \E j \in 1..Len(calls) : calls[j].req = "synth" /\ calls[j].ok
    /\ (\E j \in 1..Len(calls) : calls[j].req = "expand" /\ calls[j].ok)
           => pc \in {"done", "raised"}
    /\ pc = "done" => ExpansionIffShort(AssemblePlan(text_output))

\* a finished run with one expansion request whose answer left sections short
C14_Witness ==
    /\ pc = "done"
    /\ Cardinality(CallsOf("synth", "primary")) = 1
    /\ Cardinality(CallsOf("expand", "primary")) = 1
    /\ Len(calls) = 2
    /\ \E k \in RequiredKeys : Len(DictAt(plan, k).v) < MIN_CHARS
\* C15: for a text holding two well-formed JSON objects separated by other
\* text, _extract_json_from_text returns the mapping of the first object,
\* and nothing taken from the second.
C15_FirstBlockOnly ==
    pc = "blocks_done" => SameMapping(json_result, json_case.obj)
\* plan holds the sections as assembled from the synthesis answer: the
\* expansion request is pending, or the run ended without one
HoldsAssembledPlan ==
    \/ req = "expand" /\ pc \in {"primary", "fallback"} /\ CallsOf("expand", "primary") = {}
    \/ pc = "done" /\ CallsOf("expand", "primary") = {}

\* company_overview is the text the model returned, the other sections are empty
IsDegenerate(p, text) ==
    /\ DictAt(p, K_company_overview) = JStr(text)
    /\ \A k \in RequiredKeys \ {K_company_overview} : DictAt(p, k) = JStr(<<>>)

\* the parsed object is empty or has only falsy values
EmptyOrAllFalsy(parsed) == Len(parsed) = 0 \/ \A i \in 1..Len(parsed) : ~Truthy(parsed[i][2])

\* what the claim gives section k for the object parsed from the answer
ClaimedSection(parsed, k) ==
    IF ~DictHas(parsed, k) THEN JStr(<<>>)
    ELSE IF DictAt(parsed, k) = JNull THEN JStr(<<>>)
         ELSE JStr(Strip(PyStr(DictAt(parsed, k))))

AssembledAsClaimed(parsed) ==
    /\ IsDegenerate(plan, text_output) <=> EmptyOrAllFalsy(parsed)
    /\ ~EmptyOrAllFalsy(parsed) =>
           \A k \in RequiredKeys : DictAt(plan, k) = ClaimedSection(parsed, k)
    /\ DictKeys(plan) \subseteq RequiredKeys \cup {K_sources, K_confidence_estimate}

\* C16: the degenerate plan (company_overview = trimmed model text, the other
\* sections empty) is assembled exactly when the parsed object is empty or
\* has only falsy values; otherwise every section is the trimmed str() of
\* the parsed value, or empty when the key is absent or null, and keys
\* outside the template are dropped.
C16_DegenerateFallbackCondition ==
    HoldsAssembledPlan =>
        /\ AssembledAsClaimed(ExtractJsonFromText(text_output))
        /\ text_output = JsonDumps(JObj(<<<<K_company_overview, JNum(7)>>>>))
               => DictAt(plan, K_company_overview) = JStr(<<"7">>)
        /\ text_output = JsonDumps(JObj(<<<<K_company_overview, JStr(Padded)>>>>))
               => DictAt(plan, K_company_overview) = JStr(<<"A", "c", "m", "e", " ", "C", "o">>)
        /\ text_output = JsonDumps(JObj(<<<<K_company_overview, JNum(0)>>>>))
               => IsDegenerate(plan, text_output)

\* assembled from an answer with a null section, a key outside the template
\* and truthy values: no fallback, the null section is empty, the key is gone
C16_Witness ==
    /\ HoldsAssembledPlan
    /\ Len(calls) = 1
    /\ Contains(text_output, <<QUOTE>> \o KNotes \o <<QUOTE>>)
    /\ Contains(text_output, <<QUOTE>> \o K_pain_points \o <<QUOTE, ":", " ">> \o LitNull)
    /\ DictAt(plan, K_pain_points) = JStr(<<>>)
    /\ DictAt(plan, K_key_findings) = JStr(Short)
    /\ ~IsDegenerate(plan, text_output)
    /\ ~DictHas(plan, KNotes)
\* the first n elements of rs
FirstN(rs, n) == SubSeq(rs, 1, IF n < Len(rs) THEN n ELSE Len(rs))

\* r has neither a body field nor a url field with a value
LacksBoth(r) ==
    \/ r.kind = "none"
    \/ /\ r.kind = "dict"
       /\ \A f \in DOMAIN r.d :
              (\E i \in 1..4 : f = ContentFields[i] \/ f = UrlFields[i]) => Len(r.d[f]) = 0

\* what search_company returned
SearchReturned == [text |-> research_data, sources |-> sources]

\* search_company's result for the bare list rs, all of it processed
ResultFor(rs) == SearchCompanyResult([kind |-> "list", items |-> rs], Len(rs))

ItemX == [kind |-> "dict", d |-> [content |-> <<"x">>, url |-> UrlA]]
ItemZ == [kind |-> "dict", d |-> [text |-> <<"z">>]]

\* C17: search_company processes the first top_k results only, in order:
\* later results add nothing to the text or the sources, a result with
\* neither body nor url adds nothing, and at most top_k sources are returned.
C17_TruncationToLimit ==
    (pc = "searched" /\ search_call.raw.kind # "raise") =>
        LET rs == NormaliseResults(search_call.raw)
            kept == FirstN(rs, search_call.top_k)
        IN /\ Len(sources) <= search_call.top_k
           /\ SearchReturned = ResultFor(kept)
           /\ SearchReturned = ResultFor(SelectSeq(kept, LAMBDA r : ~LacksBoth(r)))
           /\ (\A i \in 1..Len(kept) : LacksBoth(kept[i]))
                  => SearchReturned = [text |-> <<>>, sources |-> <<>>]
           /\ (rs = <<ItemZ, ItemX, ItemX>> /\ search_call.top_k = 2)
                  => SearchReturned = [text |-> <<"z", "\n", "\n", "x">>, sources |-> <<UrlA>>]
           /\ (rs = <<ItemZ, ItemX, ItemX>> /\ search_call.top_k = 1)
                  => SearchReturned = [text |-> <<"z">>, sources |-> <<>>]

\* four results with top_k = 2: the url of the third is not returned, the
\* empty first result adds nothing
C17_Witness ==
    /\ pc = "searched"
    /\ search_call.raw.kind = "list"
    /\ search_call.top_k = 2
    /\ Len(search_call.raw.items) = 4
    /\ search_call.raw.items[1] = [kind |-> "dict", d |-> [title |-> <<"t">>]]
    /\ search_call.raw.items[2] = ItemX
    /\ search_call.raw.items[3] = [kind |-> "dict", d |-> [source |-> UrlC, href |-> UrlA]]
    /\ search_call.raw.items[4] = ItemZ
    /\ sources = <<UrlA>>
    /\ research_data = <<"x">>
\* the keys _ensure_long_sections asked the model to expand
Candidates == {keys_to_expand[i] : i \in 1..Len(keys_to_expand)}

\* C18: the merge changes candidate keys only: a section that already has
\* 300 characters keeps its value even when the answer holds a longer one,
\* and no key of the answer is added to the plan.
C18_ExpansionFrame ==
    [][ExpansionMerge =>
          /\ \A k \in RequiredKeys :
                 Len(DictAt(plan, k).v) >= MIN_CHARS => DictAt(plan', k) = DictAt(plan, k)
          /\ \A k \in RequiredKeys \ Candidates : DictAt(plan', k) = DictAt(plan, k)
          /\ DictKeys(plan) = RequiredKeys
          /\ DictKeys(plan') = RequiredKeys \cup {K_sources, K_confidence_estimate}
          /\ \A k \in DictKeys(expanded_obj') \ RequiredKeys : ~DictHas(plan', k)]_vars

\* the answer held 301 characters for every section: the candidate took
\* them, the sections of 300 characters kept theirs
C18_Witness ==
    /\ pc = "done"
    /\ Len(calls) = 2
    /\ keys_to_expand = <<K_company_overview>>
    /\ \A k \in RequiredKeys : DictHas(expanded_obj, k) /\ DictAt(expanded_obj, k) = JStr(VeryLong)
    /\ DictAt(plan, K_company_overview) = JStr(VeryLong)
    /\ \A k \in RequiredKeys \ {K_company_overview} : DictAt(plan, k) = JStr(Long)
====
